---- MODULE Spec2Model ----
(***************************************************************************)
(* The Countdown numbers game solver: the expression tree of nodes.py, the *)
(* successor generator NextStateGeneratorVisitor and the queue-driven      *)
(* search loop IterativeDeepeningSolver.solve of                           *)
(* solvers/iterative_deepening_solver.py.                                  *)
(*                                                                         *)
(* Python objects have an identity: every node carries the id it was       *)
(* allocated with, because the visited set of solve() holds node objects   *)
(* and the classes of nodes.py define __hash__ but no __eq__.              *)
(***************************************************************************)
EXTENDS Integers, Sequences, FiniteSets, TLC

(***************************************************************************)
(* Bounds.  A game of the program has 6 numbers (game.py:38) and the       *)
(* solver spells that size out as the literals 6 and 5                     *)
(* (iterative_deepening_solver.py:22 and :92).  The model runs the same    *)
(* code on smaller games, the two literals read as the number of numbers   *)
(* of the game and that number less one: the loop of solve() is followed   *)
(* pass by pass on games of NumCount numbers, and whole runs of solve()    *)
(* are taken on games of NumCount + 1 numbers.                             *)
(***************************************************************************)
NumCount == 3

\* Leaves of the trees the pure functions (eval, clone, __str__) are tried on.
MaxLeaf == 3

(***************************************************************************)
(* game.py: the cards and the validation of CountdownGame.__init__         *)
(***************************************************************************)
BIG_NUMBERS == {25, 50, 75, 100}

SMALL_NUMBERS == 1..10

VALID_NUMBERS == BIG_NUMBERS \cup SMALL_NUMBERS

\* number_frequencies[number] once the loop of __init__ has run
Frequency(nums, number) == Cardinality({i \in DOMAIN nums : nums[i] = number})

\* numbers.sort() leaves the stored list ascending
IsSorted(s) == \A i \in 1..(Len(s) - 1) : s[i] <= s[i + 1]

\* the checks of __init__, for a game of `count` numbers
ValidGame(nums, tgt, count) ==
    /\ tgt >= 100 /\ tgt <= 999
    /\ Len(nums) = count
    /\ \A i \in DOMAIN nums : nums[i] \in VALID_NUMBERS
    /\ \A i \in DOMAIN nums :
          IF nums[i] > 10 THEN Frequency(nums, nums[i]) <= 1
                          ELSE Frequency(nums, nums[i]) <= 2

(***************************************************************************)
(* nodes.py: Operator                                                      *)
(***************************************************************************)
\* list(Operator): PLUS, MINUS, TIMES, DIVIDE
Operators == <<"+", "-", "*", "/">>

commutative_AddOnly(operator) == operator = "+"

commutative(operator) == operator = "+" \/ operator = "*"

precedence(operator) == IF operator = "*" \/ operator = "/" THEN 2 ELSE 1

(***************************************************************************)
(* nodes.py: NumberNode and OperatorNode                                   *)
(***************************************************************************)
NumberNode(id, value) == [kind |-> "number", id |-> id, value |-> value]

OperatorNode(id, operator, left, right) ==
    [kind |-> "operator", id |-> id, operator |-> operator,
     left |-> left, right |-> right]

IsNumber(node) == node.kind = "number"

IsOperator(node) == node.kind = "operator"

\* the outcome of eval(): a value, or the exception that was raised
Value(v) == [ok |-> TRUE, value |-> v, exception |-> "", error |-> ""]

ValueError(msg) ==
    [ok |-> FALSE, value |-> 0, exception |-> "ValueError", error |-> msg]

Apply_AllowsZero(operator, left, right) ==
    CASE operator = "+" -> Value(left + right)
      [] operator = "-" ->
            IF left < right
            THEN ValueError("No stage can be negative, or 0 is useless")
            ELSE Value(left - right)
      [] operator = "*" -> Value(left * right)
      [] operator = "/" ->
            IF right = 0 THEN ValueError("Division by zero")
            ELSE IF left % right = 0 THEN Value(left \div right)
            ELSE ValueError("Division leaves a remainder")

\* OperatorNode.eval once both subtrees have returned left and right
Apply(operator, left, right) ==
    CASE operator = "+" -> Value(left + right)
      [] operator = "-" ->
            IF left <= right
            THEN ValueError("No stage can be negative, or 0 is useless")
            ELSE Value(left - right)
      [] operator = "*" -> Value(left * right)
      [] operator = "/" ->
            IF right = 0 THEN ValueError("Division by zero")
            ELSE IF left % right = 0 THEN Value(left \div right)
            ELSE ValueError("Division leaves a remainder")

\* eval(): an exception raised in the left subtree propagates before the
\* right subtree is evaluated, one raised in the right subtree propagates too
RECURSIVE eval(_)
eval(node) ==
    IF IsNumber(node) THEN Value(node.value)
    ELSE LET left == eval(node.left) IN
         IF ~left.ok THEN left
         ELSE LET right == eval(node.right) IN
              IF ~right.ok THEN right
              ELSE Apply(node.operator, left.value, right.value)

\* number of node objects of a tree
RECURSIVE Size(_)
Size(node) ==
    IF IsNumber(node) THEN 1 ELSE 1 + Size(node.left) + Size(node.right)

clone_Shallow(node, base) ==
    IF IsNumber(node) THEN NumberNode(base + 1, node.value)
    ELSE OperatorNode(base + 1, node.operator, node.left, node.right)

\* clone(): a deep copy; the copies are the objects base+1 .. base+Size(node)
RECURSIVE clone(_, _)
clone(node, base) ==
    IF IsNumber(node) THEN NumberNode(base + 1, node.value)
    ELSE OperatorNode(base + 1, node.operator,
                      clone(node.left, base + 1),
                      clone(node.right, base + 1 + Size(node.left)))

\* __str__ and _subtree_string
RECURSIVE Str(_)
SubtreeString(self, node) ==
    IF IsOperator(node) /\ precedence(node.operator) < precedence(self.operator)
    THEN "(" \o Str(node) \o ")"
    ELSE Str(node)

Str(node) ==
    IF IsNumber(node) THEN ToString(node.value)
    ELSE SubtreeString(node, node.left) \o " " \o node.operator \o " "
         \o SubtreeString(node, node.right)

\* __hash__: hash(self.value), or the hash of a fully bracketed string
Hash(node) ==
    IF IsNumber(node) THEN <<"int", ToString(node.value)>>
    ELSE <<"str", "(" \o Str(node.left) \o " " \o node.operator \o " "
                  \o Str(node.right) \o ")">>

\* == on nodes: neither Node nor its subclasses define __eq__, so it is
\* object.__eq__, the identity of the two objects
NodeEq(a, b) == a.id = b.id

\* an entry of a Python set of nodes: the object (its id), the hash it was
\* stored under, and what str() of the object gives
Entry(node) == [id |-> node.id, node_hash |-> Hash(node), node_str |-> Str(node)]

\* `node in visited` on a Python set: an entry that is the same object or
\* equal to it, found under the same hash
InVisited(node, set) ==
    \E v \in set : NodeEq(v, node) /\ v.node_hash = Hash(node)

\* the node objects of a tree, and its leaf values left to right
RECURSIVE NodeIds(_)
NodeIds(node) ==
    IF IsNumber(node) THEN {node.id}
    ELSE {node.id} \cup NodeIds(node.left) \cup NodeIds(node.right)

RECURSIVE Leaves(_)
Leaves(node) ==
    IF IsNumber(node) THEN <<node.value>>
    ELSE Leaves(node.left) \o Leaves(node.right)

(***************************************************************************)
(* iterative_deepening_solver.py: QueueItem and the itertools it uses      *)
(***************************************************************************)
QueueItem(node, remaining) == [node |-> node, remaining |-> remaining]

\* cycle(s): the element at position p (from 0) of s repeated for ever
CycleAt(s, p) == s[(p % Len(s)) + 1]

\* islice(cycle(s), n) taken when the cycle stands at position p
Islice(s, p, n) == [j \in 1..n |-> CycleAt(s, p + j - 1)]

\* sorted(s): ascending
Sorted(s) == SortSeq(s, LAMBDA a, b : a < b)

\* reversed(s), s[::-1]
Reversed(s) == [i \in 1..Len(s) |-> s[Len(s) + 1 - i]]

(***************************************************************************)
(* NextStateGeneratorVisitor.  A visit returns the items its generator     *)
(* yields, the value of self.current_leaf once the generator is exhausted  *)
(* and the last object id it allocated.                                    *)
(***************************************************************************)
\* the yields of `for operator in operators`: one per operator, and a second
\* one with the operands swapped when the operator is not commutative
RECURSIVE Yields(_)
Yields(operators) ==
    IF operators = <<>> THEN <<>>
    ELSE <<[operator |-> Head(operators), swapped |-> FALSE]>>
         \o (IF commutative(Head(operators)) THEN <<>>
             ELSE <<[operator |-> Head(operators), swapped |-> TRUE]>>)
         \o Yields(Tail(operators))

\* lines 32-35: next_remaining, taken from remaining_cycle once next() has
\* drawn the element at position p
NextRemaining_KeepsDrawn(remaining, p, depth_first) ==
    LET descending ==
            Reversed(Sorted(Islice(remaining, p, Len(remaining) - 1)))
    IN IF depth_first THEN Reversed(descending) ELSE descending

NextRemaining_DfsTruncates(remaining, p, depth_first) ==
    LET descending ==
            Reversed(Sorted(Islice(remaining, p + 1, Len(remaining) - 1)))
    IN IF depth_first THEN SubSeq(descending, 1, Len(descending) - 1)
       ELSE descending

NextRemaining(remaining, p, depth_first) ==
    LET descending ==
            Reversed(Sorted(Islice(remaining, p + 1, Len(remaining) - 1)))
    IN IF depth_first THEN Reversed(descending) ELSE descending

ExpandWith_NoSkip(node, current_state, depth_first, i, base) ==
    LET remaining == current_state.remaining
        p == i * Len(remaining)
        next_number == CycleAt(remaining, p)
        next_remaining == NextRemaining(remaining, p, depth_first)
        operators == IF depth_first THEN Reversed(Operators) ELSE Operators
        ys == Yields(operators)
    IN [j \in 1..Len(ys) |->
          LET b == base + 3 * (j - 1) IN
          QueueItem(
            IF ys[j].swapped
            THEN OperatorNode(b + 3, ys[j].operator,
                              clone(node, b), NumberNode(b + 2, next_number))
            ELSE OperatorNode(b + 3, ys[j].operator,
                              NumberNode(b + 1, next_number), clone(node, b + 1)),
            next_remaining)]

ExpandWith_KeepsPool(node, current_state, depth_first, i, base) ==
    LET remaining == current_state.remaining
        next_number == CycleAt(remaining, i * (Len(remaining) + 1))
        operators == IF depth_first THEN Reversed(Operators) ELSE Operators
        ys == Yields(operators)
    IN [j \in 1..Len(ys) |->
          LET b == base + 3 * (j - 1) IN
          QueueItem(
            IF ys[j].swapped
            THEN OperatorNode(b + 3, ys[j].operator,
                              clone(node, b), NumberNode(b + 2, next_number))
            ELSE OperatorNode(b + 3, ys[j].operator,
                              NumberNode(b + 1, next_number), clone(node, b + 1)),
            remaining)]

\* one pass of `for i in range(len(remaining))` of visit_number: each pass
\* draws 1 + (k - 1) + 1 elements from remaining_cycle, so pass i starts at
\* position i * (k + 1)
ExpandWith(node, current_state, depth_first, i, base) ==
    LET remaining == current_state.remaining
        k == Len(remaining)
        p == i * (k + 1)
        next_number == CycleAt(remaining, p)
        next_remaining == NextRemaining(remaining, p, depth_first)
        operators == IF depth_first THEN Reversed(Operators) ELSE Operators
        ys == Yields(operators)
    IN [j \in 1..Len(ys) |->
          LET b == base + 3 * (j - 1) IN
          QueueItem(
            IF ys[j].swapped
            THEN OperatorNode(b + 3, ys[j].operator,
                              clone(node, b), NumberNode(b + 2, next_number))
            ELSE OperatorNode(b + 3, ys[j].operator,
                              NumberNode(b + 1, next_number), clone(node, b + 1)),
            next_remaining)]

ExpandFrom_FirstOnly(node, current_state, depth_first, i, base) ==
    IF i >= Len(current_state.remaining) THEN <<>>
    ELSE ExpandWith(node, current_state, depth_first, i, base)

RECURSIVE ExpandFrom(_, _, _, _, _)
ExpandFrom(node, current_state, depth_first, i, base) ==
    IF i >= Len(current_state.remaining) THEN <<>>
    ELSE LET items == ExpandWith(node, current_state, depth_first, i, base)
         IN items \o ExpandFrom(node, current_state, depth_first, i + 1,
                                base + 3 * Len(items))

visit_number(node, current_state, depth_first, check_leaf, current_leaf, base) ==
    IF check_leaf = current_leaf
    THEN LET items == ExpandFrom(node, current_state, depth_first, 0, base)
         IN [items |-> items, current_leaf |-> current_leaf + 1,
             next |-> base + 3 * Len(items)]
    ELSE [items |-> <<QueueItem(NumberNode(base + 1, node.value),
                                current_state.remaining)>>,
          current_leaf |-> current_leaf + 1, next |-> base + 1]

\* the body of the loop of visit_operator for the pairs of product(lefts,
\* rights) from the n-th on: the right item varies fastest
RECURSIVE Product(_, _, _, _, _)
Product(operator, lefts, rights, n, base) ==
    IF n > Len(lefts) * Len(rights) THEN [items |-> <<>>, next |-> base]
    ELSE LET left == lefts[((n - 1) \div Len(rights)) + 1]
             right == rights[((n - 1) % Len(rights)) + 1]
             remaining == IF Len(left.remaining) < Len(right.remaining)
                          THEN left.remaining ELSE right.remaining
             l == clone(left.node, base)
             r == clone(right.node, base + Size(left.node))
             id == base + Size(left.node) + Size(right.node) + 1
             rest == Product(operator, lefts, rights, n + 1, id)
         IN [items |-> <<QueueItem(OperatorNode(id, operator, l, r), remaining)>>
                       \o rest.items,
             next |-> rest.next]

\* visit: product() exhausts the generator of the left subtree, then that of
\* the right subtree, before the first pair is formed
RECURSIVE visit(_, _, _, _, _, _)
visit(node, current_state, depth_first, check_leaf, current_leaf, base) ==
    IF IsNumber(node)
    THEN visit_number(node, current_state, depth_first, check_leaf,
                      current_leaf, base)
    ELSE LET lefts == visit(node.left, current_state, depth_first, check_leaf,
                            current_leaf, base)
             rights == visit(node.right, current_state, depth_first, check_leaf,
                             lefts.current_leaf, lefts.next)
             pairs == Product(node.operator, lefts.items, rights.items, 1,
                              rights.next)
         IN [items |-> pairs.items, current_leaf |-> rights.current_leaf,
             next |-> pairs.next]

generate_next_states_LastLeaf(current_state, depth_first, base, game_size) ==
    IF current_state.remaining # <<>>
       /\ game_size - Len(current_state.remaining) > 0
    THEN visit(current_state.node, current_state, depth_first,
               game_size - Len(current_state.remaining) - 1, 0, base)
    ELSE [items |-> <<>>, current_leaf |-> 0, next |-> base]

\* the visits of the leaf positions from i on, one after the other
RECURSIVE VisitLeaves(_, _, _, _, _)
VisitLeaves(current_state, depth_first, i, leaves, base) ==
    IF i >= leaves THEN [items |-> <<>>, current_leaf |-> 0, next |-> base]
    ELSE LET first == visit(current_state.node, current_state, depth_first,
                            i, 0, base)
             rest == VisitLeaves(current_state, depth_first, i + 1, leaves,
                                 first.next)
         IN [items |-> first.items \o rest.items, current_leaf |-> 0,
             next |-> rest.next]

generate_next_states_EveryLeaf(current_state, depth_first, base, game_size) ==
    IF current_state.remaining # <<>>
    THEN VisitLeaves(current_state, depth_first, 0,
                     game_size - Len(current_state.remaining), base)
    ELSE [items |-> <<>>, current_leaf |-> 0, next |-> base]

\* generate_next_states, in a game of game_size numbers: None (no items) when
\* nothing remains; otherwise the loop over the leaf positions returns in its
\* first pass, with check_leaf = 0
generate_next_states(current_state, depth_first, base, game_size) ==
    IF current_state.remaining # <<>>
       /\ game_size - Len(current_state.remaining) > 0
    THEN visit(current_state.node, current_state, depth_first, 0, 0, base)
    ELSE [items |-> <<>>, current_leaf |-> 0, next |-> base]

(***************************************************************************)
(* IterativeDeepeningSolver.solve                                          *)
(***************************************************************************)
\* a local variable that was declared but not assigned yet
Unbound == [kind |-> "unbound"]

\* the sentinel of line 78
NoDist == 1000

abs(x) == IF x < 0 THEN -x ELSE x

Min(a, b) == IF a < b THEN a ELSE b

IsExact_OrAbove(result, tgt) == result.ok /\ result.value >= tgt

\* line 122: result == self._game.target, reached only when eval() returned
IsExact(result, tgt) == result.ok /\ result.value = tgt

IsCloser_OrEqual(dist, best) == dist <= best

\* line 125: (dist := abs(result - target)) < best_dist
IsCloser(dist, best) == dist < best

\* lines 84-96: the initial states, one per number, largest number first;
\* each pass draws 1 + 5 + 1 elements from number_cycle
Seeds(nums) ==
    LET descending == Reversed(Sorted(nums)) IN
    [n \in 1..Len(nums) |->
        LET p == (n - 1) * (Len(nums) + 1) IN
        QueueItem(NumberNode(n, CycleAt(descending, p)),
                  Sorted(Islice(descending, p + 1, Len(nums) - 1)))]

Start_LowSentinel(game) ==
    [pc |-> "running", best_state |-> Unbound, best_dist |-> 0,
     visited |-> {}, returned |-> Unbound, next_id |-> Len(game.numbers),
     pushed |-> Seeds(game.numbers)]

\* lines 72-96: the locals of solve() when the loop is entered; pushed holds
\* the states the last step appended to state_queue
Start(game) ==
    [pc |-> "running", best_state |-> Unbound, best_dist |-> NoDist,
     visited |-> {}, returned |-> Unbound, next_id |-> Len(game.numbers),
     pushed |-> Seeds(game.numbers)]

\* line 118: except ValueError
Caught(result) == result.exception = "ValueError"

Pass_SkipsFailed(s, popped, game) ==
    IF InVisited(popped.node, s.visited)
    THEN [s EXCEPT !.pushed = <<>>]
    ELSE LET result == eval(popped.node)
             seen == s.visited \cup {Entry(popped.node)}
         IN IF ~result.ok
            THEN [s EXCEPT !.visited = seen, !.pushed = <<>>]
            ELSE
            IF IsExact(result, game.target)
            THEN [s EXCEPT !.visited = seen, !.pc = "solved",
                           !.returned = popped.node, !.pushed = <<>>]
            ELSE LET closer == IsCloser(abs(result.value - game.target),
                                        s.best_dist)
                     new_states == generate_next_states(
                                       popped, game.depth_first, s.next_id,
                                       Len(game.numbers))
                 IN [s EXCEPT !.visited = seen,
                              !.best_state = IF closer THEN popped.node ELSE @,
                              !.best_dist = IF closer
                                            THEN abs(result.value - game.target)
                                            ELSE @,
                              !.next_id = new_states.next,
                              !.pushed = new_states.items]

\* lines 106-132: one pass of the loop on the state it popped
Pass(s, popped, game) ==
    IF InVisited(popped.node, s.visited)
    THEN \* continue
         [s EXCEPT !.pushed = <<>>]
    ELSE LET result == eval(popped.node)
             seen == s.visited \cup {Entry(popped.node)}
         IN IF ~result.ok /\ ~Caught(result)
            THEN \* the exception leaves solve()
                 [s EXCEPT !.visited = seen, !.pc = "raised", !.pushed = <<>>]
            ELSE
            IF IsExact(result, game.target)
            THEN \* return current_state.node
                 [s EXCEPT !.visited = seen, !.pc = "solved",
                           !.returned = popped.node, !.pushed = <<>>]
            ELSE LET closer == result.ok
                               /\ IsCloser(abs(result.value - game.target),
                                           s.best_dist)
                     new_states == generate_next_states(
                                       popped, game.depth_first, s.next_id,
                                       Len(game.numbers))
                 IN [s EXCEPT !.visited = seen,
                              !.best_state = IF closer THEN popped.node ELSE @,
                              !.best_dist = IF closer
                                            THEN abs(result.value - game.target)
                                            ELSE @,
                              !.next_id = new_states.next,
                              !.pushed = new_states.items]

\* line 134: return best_state, an UnboundLocalError if it was never assigned
Return(s) ==
    IF s.best_state = Unbound THEN [s EXCEPT !.pc = "unbound", !.pushed = <<>>]
    ELSE [s EXCEPT !.pc = "exhausted", !.returned = s.best_state,
                   !.pushed = <<>>]

(***************************************************************************)
(* A whole run of solve().  With pop(0) the states leave the queue level   *)
(* by level, the successors of a level forming the next one in the order   *)
(* they were appended; with pop() the last successor of a state leaves the *)
(* queue, with everything below it, before the successor appended before   *)
(* it.                                                                     *)
(***************************************************************************)
\* the passes on items[lo..hi] in turn, run.queue collecting what they append
RECURSIVE PassRange(_, _, _, _, _)
PassRange(run, items, lo, hi, game) ==
    IF run.s.pc # "running" \/ lo > hi THEN run
    ELSE IF lo = hi
    THEN LET s == Pass(run.s, items[lo], game)
         IN [s |-> s, queue |-> run.queue \o s.pushed]
    ELSE LET mid == (lo + hi) \div 2
         IN PassRange(PassRange(run, items, lo, mid, game), items, mid + 1, hi,
                      game)

RECURSIVE RunFifo(_, _, _)
RunFifo(s, queue, game) ==
    IF queue = <<>> THEN Return(s)
    ELSE LET run == PassRange([s |-> s, queue |-> <<>>], queue, 1, Len(queue),
                              game)
         IN IF run.s.pc # "running" THEN run.s
            ELSE RunFifo(run.s, run.queue, game)

\* the passes on items[n], then on all it leads to, then on items[n-1], ...
RECURSIVE RunLifo(_, _, _, _)
RunLifo(s, items, n, game) ==
    IF s.pc # "running" \/ n = 0 THEN s
    ELSE LET below == Pass(s, items[n], game)
         IN RunLifo(RunLifo(below, below.pushed, Len(below.pushed), game),
                    items, n - 1, game)

\* solve(depth_first) from the call to the return
Run(game) ==
    LET s == Start(game) IN
    IF game.depth_first
    THEN LET end == RunLifo(s, s.pushed, Len(s.pushed), game)
         IN IF end.pc = "running" THEN Return(end) ELSE end
    ELSE RunFifo(s, s.pushed, game)

(***************************************************************************)
(* The state of one call of solve()                                        *)
(***************************************************************************)
VARIABLES
    numbers,        \* self._game.numbers
    target,         \* self._game.target
    depth_first,    \* the argument of solve()
    pc,             \* "ready", "running", "solved", "exhausted", "raised",
                    \* "unbound"; "nodes" in a caller of nodes.py
    state_queue,    \* the list of unevaluated states
    best_state,     \* the best known state found so far, or Unbound
    best_dist,      \* its distance from the target
    visited,        \* the set of node objects already evaluated
    current_state,  \* the state popped by the last pass of the loop
    returned,       \* the node solve() returned
    next_id,        \* the number of objects allocated so far
    pushed,         \* the states the last step appended to state_queue
    enqueued_dist,  \* least distance of an evaluable tree ever put on the queue
    enqueued_keys,  \* rendering, outcome and pool of every state ever put on
                    \* the queue
    tree,           \* a tree built by a caller of nodes.py, as main.py builds one
    outcome,        \* what tree.eval() gave
    copy            \* what tree.clone() gave

solver_vars == <<numbers, target, depth_first, pc, state_queue, best_state,
                 best_dist, visited, current_state, returned, next_id, pushed,
                 enqueued_dist, enqueued_keys>>

node_vars == <<tree, outcome, copy>>

vars == <<solver_vars, node_vars>>

Game == [numbers |-> numbers, target |-> target, depth_first |-> depth_first]

Locals ==
    [pc |-> pc, best_state |-> best_state, best_dist |-> best_dist,
     visited |-> visited, returned |-> returned, next_id |-> next_id,
     pushed |-> pushed]

\* the distance of a tree from the target, NoDist when eval() raises
Dist(node, tgt) ==
    LET result == eval(node) IN
    IF result.ok THEN abs(result.value - tgt) ELSE NoDist

RECURSIVE MinDist(_, _)
MinDist(items, tgt) ==
    IF items = <<>> THEN NoDist
    ELSE Min(Dist(Head(items).node, tgt), MinDist(Tail(items), tgt))

\* what the rendering of a state stands for: the outcome of its evaluation
\* and its pool
KeysOf(items) ==
    {[key |-> Str(items[i].node),
      ok |-> eval(items[i].node).ok,
      value |-> eval(items[i].node).value,
      pool |-> Sorted(items[i].remaining)] : i \in DOMAIN items}

SetLocals(s) ==
    /\ pc' = s.pc
    /\ best_state' = s.best_state
    /\ best_dist' = s.best_dist
    /\ visited' = s.visited
    /\ returned' = s.returned
    /\ next_id' = s.next_id
    /\ pushed' = s.pushed

\* the games the runs start from: cards of the deck, in ascending order as
\* numbers.sort() leaves them, and one of the targets
Deck == <<1, 5, 5, 25, 100>>

Targets == {100, 105, 124, 125}

\* the elements of s at the positions in the set of indices
RECURSIVE Pick(_, _)
Pick(s, indices) ==
    IF indices = {} THEN <<>>
    ELSE LET last == CHOOSE i \in indices : \A j \in indices : j <= i
         IN Append(Pick(s, indices \ {last}), s[last])

Games(count) ==
    {g \in [numbers : {Pick(Deck, S) : S \in {T \in SUBSET DOMAIN Deck :
                                                Cardinality(T) = count}},
            target : Targets] :
        IsSorted(g.numbers) /\ ValidGame(g.numbers, g.target, count)}

\* a solver was constructed on a game, solve() was not called yet
Ready(games) ==
    /\ \E g \in games : numbers = g.numbers /\ target = g.target
    /\ depth_first = FALSE
    /\ pc = "ready"
    /\ state_queue = <<>>
    /\ best_state = Unbound
    /\ best_dist = NoDist
    /\ visited = {}
    /\ current_state = Unbound
    /\ returned = Unbound
    /\ next_id = 0
    /\ pushed = <<>>
    /\ enqueued_dist = NoDist
    /\ enqueued_keys = {}
    /\ tree = Unbound
    /\ outcome = Unbound
    /\ copy = Unbound

Init == Ready(Games(NumCount))

\* solve(depth_first) up to the loop: lines 72-96
Solve(mode) ==
    /\ pc = "ready"
    /\ depth_first' = mode
    /\ LET s == Start([numbers |-> numbers, target |-> target,
                       depth_first |-> mode])
       IN /\ SetLocals(s)
          /\ state_queue' = s.pushed
          /\ enqueued_dist' = MinDist(s.pushed, target)
          /\ enqueued_keys' = KeysOf(s.pushed)
    /\ UNCHANGED <<numbers, target, current_state>>
    /\ UNCHANGED node_vars

Iterate_PopsLast ==
    /\ pc = "running"
    /\ state_queue # <<>>
    /\ LET popped == state_queue[Len(state_queue)]
           queue == SubSeq(state_queue, 1, Len(state_queue) - 1)
           s == Pass(Locals, popped, Game)
       IN /\ current_state' = popped
          /\ SetLocals(s)
          /\ state_queue' = queue \o s.pushed
          /\ enqueued_dist' = Min(enqueued_dist, MinDist(s.pushed, target))
          /\ enqueued_keys' = enqueued_keys \cup KeysOf(s.pushed)
    /\ UNCHANGED <<numbers, target, depth_first>>
    /\ UNCHANGED node_vars

\* one pass of the loop of lines 99-132
Iterate ==
    /\ pc = "running"
    /\ state_queue # <<>>
    /\ LET popped == IF depth_first THEN state_queue[Len(state_queue)]
                     ELSE Head(state_queue)
           queue == IF depth_first
                    THEN SubSeq(state_queue, 1, Len(state_queue) - 1)
                    ELSE Tail(state_queue)
           s == Pass(Locals, popped, Game)
       IN /\ current_state' = popped
          /\ SetLocals(s)
          /\ state_queue' = queue \o s.pushed
          /\ enqueued_dist' = Min(enqueued_dist, MinDist(s.pushed, target))
          /\ enqueued_keys' = enqueued_keys \cup KeysOf(s.pushed)
    /\ UNCHANGED <<numbers, target, depth_first>>
    /\ UNCHANGED node_vars

\* the loop ends on an empty queue: line 134
ReturnBest ==
    /\ pc = "running"
    /\ state_queue = <<>>
    /\ SetLocals(Return(Locals))
    /\ UNCHANGED <<numbers, target, depth_first, state_queue, current_state,
                   enqueued_dist, enqueued_keys>>
    /\ UNCHANGED node_vars

Next ==
    \/ \E mode \in BOOLEAN : Solve(mode)
    \/ Iterate
    \/ ReturnBest

Spec == Init /\ [][Next]_vars

\* the interpreter runs the single thread of solve() until it returns: weak
\* fairness of Next, WF_vars(Next), with ENABLED <<Next>>_vars written out as
\* what it amounts to, the call not having returned yet
Active == {"ready", "running"}

FairSpec == Spec /\ (<>[](pc \in Active) => []<><<Next>>_vars)

(***************************************************************************)
(* solve() as the caller sees it: called, and returned                     *)
(***************************************************************************)
InitRun == Ready(Games(NumCount) \cup Games(NumCount + 1))

RunSolve(mode) ==
    /\ pc = "ready"
    /\ depth_first' = mode
    /\ SetLocals(Run([numbers |-> numbers, target |-> target,
                      depth_first |-> mode]))
    /\ UNCHANGED <<numbers, target, state_queue, current_state, enqueued_dist,
                   enqueued_keys>>
    /\ UNCHANGED node_vars

NextRun == \E mode \in BOOLEAN : RunSolve(mode)

SpecRun == InitRun /\ [][NextRun]_vars

(***************************************************************************)
(* nodes.py on its own: a caller builds a tree, evaluates it and clones it *)
(***************************************************************************)
LeafValues == 0..MaxLeaf

Depth0 == {NumberNode(0, v) : v \in LeafValues}

Grow(trees) ==
    trees \cup {OperatorNode(0, Operators[o], l, r) :
                    o \in DOMAIN Operators, l \in trees, r \in trees}

\* every tree of depth at most 2, its objects numbered as they are allocated
Trees == {clone(t, 0) : t \in Grow(Grow(Depth0))}

InitNodes ==
    /\ tree \in Trees
    /\ outcome = Unbound
    /\ copy = Unbound
    /\ numbers = <<>> /\ target = 0 /\ depth_first = FALSE
    /\ pc = "nodes"
    /\ state_queue = <<>>
    /\ best_state = Unbound
    /\ best_dist = NoDist
    /\ visited = {}
    /\ current_state = Unbound
    /\ returned = Unbound
    /\ next_id = 0
    /\ pushed = <<>>
    /\ enqueued_dist = NoDist
    /\ enqueued_keys = {}

\* tree.eval()
EvalNode ==
    /\ pc = "nodes"
    /\ outcome = Unbound
    /\ outcome' = eval(tree)
    /\ UNCHANGED <<tree, copy>>
    /\ UNCHANGED solver_vars

\* tree.clone(): the copies are allocated after the objects of the tree
CloneNode ==
    /\ pc = "nodes"
    /\ copy = Unbound
    /\ copy' = clone(tree, Size(tree))
    /\ UNCHANGED <<tree, outcome>>
    /\ UNCHANGED solver_vars

NextNodes == EvalNode \/ CloneNode

SpecNodes == InitNodes /\ [][NextNodes]_vars

\* the solver and the callers of nodes.py side by side
SpecAll == (Init \/ InitNodes) /\ [][Next \/ NextNodes]_vars

(***************************************************************************)
(* Properties                                                              *)
(***************************************************************************)
Done == {"solved", "exhausted"}

\* the values of the expressions that use every number at the positions S
\* exactly once
Combine(X, Y) ==
    {Apply(Operators[o], a, b).value :
        <<o, a, b>> \in {t \in (DOMAIN Operators) \X X \X Y :
                            Apply(Operators[t[1]], t[2], t[3]).ok}}

RECURSIVE ValuesOf(_, _)
ValuesOf(nums, S) ==
    IF Cardinality(S) = 1 THEN {nums[i] : i \in S}
    ELSE UNION {Combine(ValuesOf(nums, A), ValuesOf(nums, S \ A)) :
                    A \in (SUBSET S) \ {{}, S}}

\* the values of all expressions over a subset of the numbers
Achievable(nums) ==
    UNION {ValuesOf(nums, S) : S \in (SUBSET DOMAIN nums) \ {{}}}

\* C1: solve() returns a tree that evaluates to the target whenever some
\* expression over a subset of the numbers, each used at most once, evaluates
\* to the target, and otherwise a tree whose value is the closest to the
\* target among all such expressions.
C1_ExactOrClosest ==
    pc \in Done =>
        LET result == eval(returned) IN
        /\ result.ok
        /\ IF target \in Achievable(numbers)
           THEN result.value = target
           ELSE \A a \in Achievable(numbers) :
                    abs(result.value - target) <= abs(a - target)

\* the queue ran empty and a tree short of the target was returned although
\* an expression over the numbers reaches it
C1_Missed ==
    /\ pc = "exhausted"
    /\ target \in Achievable(numbers)
    /\ eval(returned).value # target

\* the state the next pass of the loop pops, and what it leaves on the queue
NextPopped ==
    IF depth_first THEN state_queue[Len(state_queue)] ELSE Head(state_queue)

NextQueue ==
    IF depth_first THEN SubSeq(state_queue, 1, Len(state_queue) - 1)
    ELSE Tail(state_queue)

\* the tree evaluates, and to the target
HitsTarget(node) == eval(node).ok /\ eval(node).value = target

C2_State ==
    /\ pc = "solved" =>
          returned = current_state.node /\ HitsTarget(returned)
    /\ (pc \in {"running", "exhausted"} /\ current_state # Unbound
        /\ Entry(current_state.node) \in visited) =>
          ~HitsTarget(current_state.node)

C2_Step ==
    /\ pc # "solved"
    /\ (pc = "running" /\ state_queue # <<>>) =>
          /\ (pc' = "solved") <=>
                (~InVisited(NextPopped.node, visited)
                 /\ HitsTarget(NextPopped.node))
          /\ pc' = "solved" =>
                /\ returned' = NextPopped.node
                /\ state_queue' = NextQueue
                /\ pushed' = <<>>
                /\ next_id' = next_id
    /\ pc' = "exhausted" => state_queue = <<>>

\* C2: solve() leaves Running for Solved exactly when a popped state that is
\* not discarded evaluates to the target; it then returns that tree at once,
\* nothing more being popped, evaluated or enqueued; and it returns through
\* the exhaustion of the queue only if no popped state evaluated to the target.
C2_SolvedExactlyOnMatch == []C2_State /\ [][C2_Step]_vars

\* a run that ended on a match found after some expansions
C2_Witness ==
    /\ pc = "solved"
    /\ IsOperator(returned)
    /\ state_queue # <<>>

C3_State ==
    pc = "exhausted" =>
        /\ eval(returned).ok
        /\ abs(eval(returned).value - target) <= enqueued_dist
        /\ abs(eval(returned).value - target) = best_dist

C3_Step ==
    best_state' # best_state =>
        /\ best_dist' < best_dist
        /\ eval(best_state').ok
        /\ best_dist' = abs(eval(best_state').value - target)

\* C3: when the queue empties without an exact match, solve() returns a tree
\* that evaluates, at a distance from the target no greater than that of any
\* tree that was put on the queue and evaluates; the best state so far is only
\* ever replaced by one at a strictly smaller distance.
C3_ClosestOfEnqueued == []C3_State /\ [][C3_Step]_vars

\* the queue ran empty and the best state found is not one of the seeds
C3_Witness ==
    /\ pc = "exhausted"
    /\ IsOperator(returned)
    /\ enqueued_dist = best_dist

\* the leaf values of the tree of a state together with its remaining pool
Used(item) == Sorted(Leaves(item.node) \o item.remaining)

\* C4: in every state put on the queue, the leaves of the tree together with
\* the remaining pool are the numbers of the game, each as often as supplied;
\* the tree has between 1 and all of them as leaves and the pool holds the rest.
C4_NumbersConserved ==
    \A i \in DOMAIN pushed :
        /\ Used(pushed[i]) = Sorted(numbers)
        /\ Len(Leaves(pushed[i].node)) >= 1
        /\ Len(Leaves(pushed[i].node)) <= Len(numbers)
        /\ Len(pushed[i].remaining)
              = Len(numbers) - Len(Leaves(pushed[i].node))

\* successors with every number of the game in their tree were put on the
\* queue
C4_Witness ==
    /\ pushed # <<>>
    /\ \A i \in DOMAIN pushed :
          Len(Leaves(pushed[i].node)) = Len(numbers)
          /\ pushed[i].remaining = <<>>

\* the renderings of the trees evaluated so far
VisitedKeys == {v.node_str : v \in visited}

\* C5: a popped state whose rendering is that of a state popped earlier is
\* discarded without being evaluated or expanded, so no two states with the
\* same rendering are both evaluated.
C5_NoKeyEvaluatedTwice == Cardinality(VisitedKeys) = Cardinality(visited)

\* the operator nodes of a tree: the expansions that led to it
Operations(node) == Size(node) - Len(Leaves(node))

\* every node object of the items is allocated by the step
Fresh(items, allocated) ==
    \A i \in DOMAIN items :
        \A id \in NodeIds(items[i].node) : id > allocated

C6_Expansion ==
    (pc = "running" /\ current_state # Unbound) =>
        /\ \A i \in DOMAIN pushed :
              /\ Len(pushed[i].remaining) = Len(current_state.remaining) - 1
              /\ Operations(pushed[i].node)
                    = Operations(current_state.node) + 1
              /\ Operations(pushed[i].node) <= Len(numbers) - 1
        /\ current_state.remaining = <<>> => pushed = <<>>

C6_Step ==
    /\ Fresh(pushed', next_id)
    /\ (pc = "running" /\ state_queue # <<>>) =>
          /\ state_queue' = NextQueue \o pushed'
          /\ \A i \in DOMAIN pushed' :
                pushed'[i] # NextPopped
                /\ \A k \in DOMAIN state_queue : pushed'[i] # state_queue[k]

\* C6: solve() terminates: every successor an expansion produces has a
\* remaining pool one element smaller than its parent's and one operation more,
\* never more than the numbers of the game allow (5 for 6 numbers); a state
\* with an empty pool produces no successors; no state is put on the queue a
\* second time; and the call eventually returns, on a match or on the empty
\* queue.
C6_Terminates ==
    []C6_Expansion /\ [][C6_Step]_vars /\ <>(pc \in Done)

\* the queue ran empty, the last state popped being at the deepest level
C6_Witness ==
    /\ pc = "exhausted"
    /\ current_state.remaining = <<>>
    /\ Operations(current_state.node) = Len(numbers) - 1

\* C7: solve() never fails: no exception of eval() leaves it, the first state
\* popped is a bare leaf, from the first pass on (short of a match) a best
\* state is assigned at a distance below the sentinel, and what is returned
\* is a node, the match or the best state.
C7_NeverFails ==
    /\ pc \notin {"raised", "unbound"}
    /\ (pc = "running" /\ current_state = Unbound) =>
          state_queue # <<>> /\ IsNumber(NextPopped.node)
    /\ (pc = "running" /\ current_state # Unbound) =>
          best_state # Unbound /\ best_dist < 1000
    /\ pc \in Done =>
          /\ returned # Unbound
          /\ IsNumber(returned) \/ IsOperator(returned)
    /\ pc = "exhausted" => returned = best_state

\* the queue ran empty on a state whose evaluation raised, and a node was
\* returned
C7_Witness ==
    /\ pc = "exhausted"
    /\ ~eval(current_state.node).ok
    /\ returned # Unbound

\* the rules of evaluation as stated, apart from eval(): the integer a tree
\* stands for, and whether a step of it is refused
RECURSIVE Exact(_)
Exact(node) ==
    IF IsNumber(node) THEN node.value
    ELSE LET l == Exact(node.left)
             r == Exact(node.right)
         IN CASE node.operator = "+" -> l + r
              [] node.operator = "-" -> l - r
              [] node.operator = "*" -> l * r
              [] node.operator = "/" -> l \div r

RECURSIVE Fails(_)
Fails(node) ==
    /\ IsOperator(node)
    /\ \/ Fails(node.left)
       \/ Fails(node.right)
       \/ node.operator = "-" /\ Exact(node.left) <= Exact(node.right)
       \/ /\ node.operator = "/"
          /\ \/ Exact(node.right) = 0
             \/ Exact(node.left) % Exact(node.right) # 0

RECURSIVE Subtrees(_)
Subtrees(node) ==
    IF IsNumber(node) THEN {node}
    ELSE {node} \cup Subtrees(node.left) \cup Subtrees(node.right)

PositiveLeaves(node) ==
    \A i \in DOMAIN Leaves(node) : Leaves(node)[i] > 0

\* every subtree is a positive integer and every division is exact
Sound(node) ==
    \A s \in Subtrees(node) :
        /\ Exact(s) > 0
        /\ (IsOperator(s) /\ s.operator = "/") =>
              Exact(s.right) # 0 /\ Exact(s.left) % Exact(s.right) = 0

\* C8: eval() of an operator node raises exactly when a subtree raises, or
\* the operator is - and left <= right, or it is / and right = 0 or left
\* leaves a remainder; otherwise it returns the exact integer.  So in a tree
\* over positive leaves that evaluates, and in the tree solve() returns,
\* every subtree is a positive integer and every division is exact.
C8_EvalRules ==
    /\ (pc = "nodes" /\ outcome # Unbound) =>
          /\ outcome.ok <=> ~Fails(tree)
          /\ outcome.ok => outcome.value = Exact(tree)
          /\ (outcome.ok /\ PositiveLeaves(tree)) => Sound(tree)
    /\ pc \in Done => ~Fails(returned) /\ Sound(returned)

\* a tree with a subtraction under a division was evaluated
C8_Witness ==
    /\ pc = "nodes"
    /\ outcome # Unbound
    /\ outcome.ok
    /\ IsOperator(tree) /\ tree.operator = "/"
    /\ IsOperator(tree.left) /\ tree.left.operator = "-"

\* the tree of one operator on the numbers at positions i and j
PairTree(i, o, j) ==
    OperatorNode(0, Operators[o], NumberNode(0, numbers[i]),
                 NumberNode(0, numbers[j]))

\* the target is a op b for two of the numbers
TwoNumberTarget ==
    \E i, j \in DOMAIN numbers : \E o \in DOMAIN Operators :
        /\ i # j
        /\ ~Fails(PairTree(i, o, j))
        /\ Exact(PairTree(i, o, j)) = target

\* C9: when the target is a op b for two of the numbers, at distinct
\* positions, and one of the operators, solve() returns a tree that evaluates
\* to the target in both modes; and a run that exhausts the queue has
\* evaluated a op b for every ordered pair of positions and every operator.
C9_TwoNumberTargets ==
    /\ (pc \in Done /\ TwoNumberTarget) =>
          ~Fails(returned) /\ Exact(returned) = target
    /\ pc = "exhausted" =>
          \A i, j \in DOMAIN numbers : \A o \in DOMAIN Operators :
              i # j => Str(PairTree(i, o, j)) \in VisitedKeys

\* a depth-first run returned a tree for a target that two of the numbers
\* reach
C9_Witness ==
    /\ pc = "solved"
    /\ depth_first
    /\ TwoNumberTarget
    /\ Exact(returned) = target

\* a tree without its object identities
RECURSIVE Shape(_)
Shape(node) ==
    IF IsNumber(node) THEN <<node.value>>
    ELSE <<node.operator, Shape(node.left), Shape(node.right)>>

\* no node object occurs twice in the tree
Unshared(node) == Cardinality(NodeIds(node)) = Size(node)

C10_State ==
    /\ (pc = "nodes" /\ copy # Unbound) =>
          /\ Shape(copy) = Shape(tree)
          /\ Str(copy) = Str(tree)
          /\ eval(copy) = eval(tree)
          /\ NodeIds(copy) \cap NodeIds(tree) = {}
          /\ Unshared(copy)
    /\ (pc = "running" /\ current_state # Unbound) =>
          \A i \in DOMAIN pushed :
              /\ NodeIds(pushed[i].node) \cap NodeIds(current_state.node) = {}
              /\ Unshared(pushed[i].node)
              /\ \A j \in DOMAIN pushed :
                    i # j => NodeIds(pushed[i].node)
                                \cap NodeIds(pushed[j].node) = {}

C10_Step ==
    (pc = "running" /\ state_queue # <<>>) =>
        /\ current_state' = NextPopped
        /\ \A k \in DOMAIN NextQueue : state_queue'[k] = NextQueue[k]
        /\ \A i \in DOMAIN pushed' :
              NodeIds(pushed'[i].node)
                 \cap UNION {NodeIds(state_queue[k].node) :
                                k \in DOMAIN state_queue} = {}

\* C10: clone() returns a tree of the same structure, rendering and value
\* that shares no node object with the original; an expansion leaves the
\* state it expands, tree and pool, and the states still queued as they
\* were, and the trees of its successors share no node object with the
\* parent, with any queued state or with one another.
C10_NoSharing == []C10_State /\ [][C10_Step]_vars

\* a state whose tree has operators was expanded
C10_Witness ==
    /\ pc = "running"
    /\ current_state # Unbound
    /\ IsOperator(current_state.node)
    /\ pushed # <<>>

\* the two sequences hold the same elements, each as often
SameBag(a, b) ==
    /\ Len(a) = Len(b)
    /\ \A i \in DOMAIN a :
          Cardinality({k \in DOMAIN a : a[k] = a[i]})
             = Cardinality({k \in DOMAIN b : b[k] = a[i]})

\* the value of the leftmost leaf of a tree without identities, and the tree
\* with that leaf replaced by x
RECURSIVE LeftmostLeaf(_)
LeftmostLeaf(shape) ==
    IF Len(shape) = 1 THEN shape[1] ELSE LeftmostLeaf(shape[2])

RECURSIVE ReplaceLeftmost(_, _)
ReplaceLeftmost(shape, x) ==
    IF Len(shape) = 1 THEN x
    ELSE <<shape[1], ReplaceLeftmost(shape[2], x), shape[3]>>

\* the six nodes that combine a and b: every operator on (a, b), and - and /
\* on (b, a) as well
SixNodes(a, b) ==
    << <<"+", <<a>>, <<b>>>>, <<"-", <<a>>, <<b>>>>, <<"*", <<a>>, <<b>>>>,
       <<"/", <<a>>, <<b>>>>, <<"-", <<b>>, <<a>>>>, <<"/", <<b>>, <<a>>>> >>

\* the trees of the successors appended for the b-th number drawn
Block(b) == [k \in 1..6 |-> Shape(pushed[6 * (b - 1) + k].node)]

\* the parent's tree with each of the nodes in place of its leftmost leaf
InPlace(nodes) ==
    [k \in DOMAIN nodes |->
        ReplaceLeftmost(Shape(current_state.node), nodes[k])]

Expanded == pc = "running" /\ current_state # Unbound

\* C11, as stated: the six successors per number drawn put the old leaf value
\* on the left and the new number on the right for each of the four operators,
\* and mirror Subtract and Divide.
C11_OldLeafOnLeft ==
    Expanded =>
        /\ Len(pushed) = 6 * Len(current_state.remaining)
        /\ \A b \in 1..Len(current_state.remaining) :
              \E p \in DOMAIN current_state.remaining :
                  SameBag(Block(b),
                          InPlace(SixNodes(
                              LeftmostLeaf(Shape(current_state.node)),
                              current_state.remaining[p])))

\* C11: for the expanded leaf with value v and each number n drawn from the
\* pool exactly six successors are appended: for each of the four operators
\* the node with the new number n on the left and the old leaf v on the right
\* in place of the leaf, and for - and / also the node with v on the left and
\* n on the right.
C11_NewNumberOnLeft ==
    Expanded =>
        /\ Len(pushed) = 6 * Len(current_state.remaining)
        /\ \A b \in 1..Len(current_state.remaining) :
              \E p \in DOMAIN current_state.remaining :
                  SameBag(Block(b),
                          InPlace(SixNodes(
                              current_state.remaining[p],
                              LeftmostLeaf(Shape(current_state.node)))))

\* a tree with an operator was expanded with numbers other than its leftmost
\* leaf
C11_Witness ==
    /\ Expanded
    /\ IsOperator(current_state.node)
    /\ current_state.remaining # <<>>
    /\ \A p \in DOMAIN current_state.remaining :
          current_state.remaining[p]
             # LeftmostLeaf(Shape(current_state.node))

\* the sequence without its element at position p
RemoveAt(s, p) == SubSeq(s, 1, p - 1) \o SubSeq(s, p + 1, Len(s))

\* the positions in pushed of the successors appended for the b-th number
BlockOf(b) ==
    {i \in DOMAIN pushed :
        (b - 1) * Len(pushed) < i * Len(current_state.remaining)
        /\ i * Len(current_state.remaining) <= b * Len(pushed)}

\* C12: the expansion of a state with k >= 1 numbers in its pool gives every
\* position of the pool its turn: the successors of the p-th turn have the
\* leaves of the parent and the number at position p, and as their pool the
\* parent's pool without that one occurrence, in both modes.
C12_EveryPoolElement ==
    (Expanded /\ current_state.remaining # <<>>) =>
        \A p \in DOMAIN current_state.remaining :
            /\ BlockOf(p) # {}
            /\ \A i \in BlockOf(p) :
                  /\ Sorted(Leaves(pushed[i].node))
                        = Sorted(Leaves(current_state.node)
                                 \o <<current_state.remaining[p]>>)
                  /\ Sorted(pushed[i].remaining)
                        = Sorted(RemoveAt(current_state.remaining, p))

\* a depth-first expansion of a state whose pool holds a number twice
C12_Witness ==
    /\ Expanded
    /\ depth_first
    /\ Len(current_state.remaining) = 2
    /\ current_state.remaining[1] = current_state.remaining[2]
    /\ pushed # <<>>

\* the right child of every operator node is a leaf
RECURSIVE LeftDeep(_)
LeftDeep(node) ==
    IsOperator(node) => IsNumber(node.right) /\ LeftDeep(node.left)

\* the values on the cards of the game
Cards == {numbers[i] : i \in DOMAIN numbers}

\* C13: every expansion replaces the leftmost leaf only, by an operator node
\* on two leaves, and copies every other leaf and operator as it is; and in
\* every state put on the queue the right child of every operator node is a
\* leaf, so no tree with an operator node as a right child is generated.
C13_LeftDeepOnly ==
    /\ \A i \in DOMAIN pushed : LeftDeep(pushed[i].node)
    /\ \A k \in DOMAIN state_queue : LeftDeep(state_queue[k].node)
    /\ Expanded =>
          \A i \in DOMAIN pushed :
              \E o \in DOMAIN Operators : \E a, b \in Cards :
                  /\ LeftmostLeaf(Shape(current_state.node)) \in {a, b}
                  /\ Shape(pushed[i].node)
                        = ReplaceLeftmost(Shape(current_state.node),
                                          <<Operators[o], <<a>>, <<b>>>>)

\* successors with an operator node under the left of their root were put on
\* the queue
C13_Witness ==
    /\ Expanded
    /\ \E i \in DOMAIN pushed :
          /\ IsOperator(pushed[i].node)
          /\ IsOperator(pushed[i].node.left)
          /\ IsNumber(pushed[i].node.right)

\* the trees and pools of the items, without the identities of the nodes
Plain(items) ==
    [i \in DOMAIN items |->
        [node |-> Shape(items[i].node), remaining |-> items[i].remaining]]

\* the same tree with every - and / turned into +, which always evaluates
RECURSIVE Evaluable(_)
Evaluable(node) ==
    IF IsNumber(node) THEN node
    ELSE OperatorNode(node.id, "+", Evaluable(node.left),
                      Evaluable(node.right))

\* the successors with the leftmost leaf of the parent taken out of each: what
\* the expansion added, and the pool it left
Added(items, parent) ==
    [i \in DOMAIN items |->
        [remaining |-> items[i].remaining,
         leaves |-> Len(Leaves(items[i].node)) - Len(Leaves(parent))]]

C14_Step ==
    (pc = "running" /\ state_queue # <<>>
     /\ ~InVisited(NextPopped.node, visited) /\ Fails(NextPopped.node)) =>
        /\ pc' = "running"
        /\ returned' = returned
        /\ best_state' = best_state
        /\ best_dist' = best_dist
        /\ state_queue' = NextQueue \o pushed'
        /\ Len(pushed') = 6 * Len(NextPopped.remaining)
        /\ Plain(pushed')
              = Plain(generate_next_states(NextPopped, depth_first, next_id,
                                           Len(numbers)).items)
        /\ Added(pushed', NextPopped.node)
              = Added(generate_next_states(
                          QueueItem(Evaluable(NextPopped.node),
                                    NextPopped.remaining),
                          depth_first, next_id, Len(numbers)).items,
                      NextPopped.node)

\* C14: when the evaluation of a popped state that is not discarded raises,
\* the state is not returned and the best state and its distance stay as they
\* were, and the state is expanded all the same: the successors an evaluable
\* state with the same pool would get are appended to the queue.
C14_FailedStillExpanded == [][C14_Step]_vars

\* a state whose evaluation raised was expanded and is not the best state
C14_Witness ==
    /\ Expanded
    /\ Fails(current_state.node)
    /\ pushed # <<>>
    /\ best_state # Unbound
    /\ best_state # current_state.node

LeafCount(item) == Len(Leaves(item.node))

\* the renderings of the numbers of the game as bare leaves
LeafKeys == {ToString(numbers[i]) : i \in DOMAIN numbers}

C15_Order ==
    (~depth_first /\ pc \in {"running", "solved", "exhausted"}) =>
        /\ \A k \in DOMAIN state_queue :
              /\ current_state # Unbound =>
                    LeafCount(current_state) <= LeafCount(state_queue[k])
              /\ k < Len(state_queue) =>
                    LeafCount(state_queue[k]) <= LeafCount(state_queue[k + 1])
        /\ (current_state # Unbound /\ IsNumber(current_state.node)) =>
              VisitedKeys \subseteq LeafKeys

C15_Match ==
    (~depth_first /\ pc = "solved") =>
        /\ target \in Cards =>
              IsNumber(returned) /\ VisitedKeys \subseteq LeafKeys
        /\ \A k \in DOMAIN state_queue :
              (~Fails(state_queue[k].node)
               /\ Exact(state_queue[k].node) = target) =>
                    Len(Leaves(returned)) <= LeafCount(state_queue[k])

\* C15: breadth-first, the states leave the queue in non-decreasing order of
\* leaf count, every seed before any tree with an operator; so when a number
\* of the game is the target a bare leaf is returned, no tree with an operator
\* having been evaluated, and a returned match has no more leaves than any
\* generated tree that evaluates to the target.
C15_BreadthFirstOrder ==
    /\ C15_Order
    /\ C15_Match
    /\ (~depth_first /\ pc = "running" /\ state_queue # <<>>
        /\ current_state # Unbound) =>
            LeafCount(current_state) <= LeafCount(NextPopped)

\* a breadth-first run on a game with the target among its numbers returned
\* a bare leaf, the other seeds still waiting on the queue
C15_Witness ==
    /\ ~depth_first
    /\ pc = "solved"
    /\ target \in Cards
    /\ IsNumber(returned)
    /\ state_queue # <<>>
    /\ \A k \in DOMAIN state_queue : IsNumber(state_queue[k].node)

\* what solve() returns on the same game in the other mode
OtherMode ==
    Run([numbers |-> numbers, target |-> target,
         depth_first |-> ~depth_first]).returned

\* the tree evaluates to the target, by the rules of evaluation as stated
OnTarget(node) == ~Fails(node) /\ Exact(node) = target

\* C16: on every game the breadth-first call returns a tree that evaluates to
\* the target if and only if the depth-first call does, and when neither does
\* the two trees returned are at the same distance from the target.
C16_ModesAgree ==
    pc \in Done =>
        LET other == OtherMode IN
        /\ other # Unbound
        /\ OnTarget(returned) <=> OnTarget(other)
        /\ ~OnTarget(returned) =>
              /\ ~Fails(returned) /\ ~Fails(other)
              /\ abs(Exact(returned) - target) = abs(Exact(other) - target)

\* a call that found no match returned another tree than the call in the
\* other mode does
C16_Witness ==
    /\ pc = "exhausted"
    /\ Shape(returned) # Shape(OtherMode)

\* C17: any two states put on the queue during one call whose trees render
\* to the same string have the same outcome of evaluation, the same value or
\* both raising, and the same remaining pool as a multiset.
C17_KeySound ==
    \A a, b \in enqueued_keys : a.key = b.key => a = b

\* two states with the same rendering were put on the queue by different
\* passes of the loop
C17_Witness ==
    /\ Expanded
    /\ \E i \in DOMAIN pushed : \E k \in DOMAIN state_queue :
          /\ k <= Len(state_queue) - Len(pushed)
          /\ Str(pushed[i].node) = Str(state_queue[k].node)
          /\ IsOperator(pushed[i].node.left)

====
